---- MODULE Spec2Model ----
(***************************************************************************)
(* Seal ("precinto") inventory and chain-of-custody tracker.               *)
(*                                                                         *)
(* The repository holds several revisions of the same React application.   *)
(* Each revision is modelled as its own specification over one set of      *)
(* variables:                                                              *)
(*   SpecP1   src/unnamed/part_001  (SealService + handleMassiveMovement)  *)
(*   SpecP2   src/unnamed/part_002  (MovementsView with one common status) *)
(*   SpecApp  src/App.tsx           (MovementsView with check boxes)       *)
(*   SpecP0   src/unnamed/part_000  (check-box selection + SealService)    *)
(*                                                                         *)
(* Every action is one event handler, run to completion.  Text typed into  *)
(* an input that only the handler reads is the action's input.  A modal    *)
(* overlay ("fixed inset-0") covers the page, so the handlers of the page  *)
(* below are guarded by the overlay being closed.  Switching tabs changes  *)
(* no modelled state and is therefore not an action.                       *)
(* History entries keep date, fromStatus, toStatus and user; the free-text *)
(* details and the copy of the form kept in `fields` are not modelled.     *)
(***************************************************************************)
EXTENDS Integers, Sequences, FiniteSets, TLC

VARIABLES
    store,          \* localStorage 'selloData' (a sequence of seals)
    seals,          \* React state `seals`
    currentUser,    \* React state `currentUser` (None = login screen)
    selectedSeals,  \* React state `selectedSeals`: snapshots of seals
    searchResult,   \* part_000 / part_001: the seal shown in the detail modal
    isMoveModalOpen,\* part_000 / part_001: move modal; part_002 / App: isMoveFormOpen
    moveForm,       \* part_000 / part_001: [status, fields]
    safeMode,       \* part_001: safeMode; part_002: isDeleteModeActive
    toast,          \* last message shown (toast or alert)
    clock,          \* wall clock, in the resolution of toLocaleString
    targetStatus,   \* part_002 / App: targetStatus
    moveData,       \* part_002 / App: moveData
    filteredSeals,  \* part_002: filteredSeals
    isSearchPerformed, \* part_002: isSearchPerformed
    selectedIds,    \* App.tsx MovementsView: selectedIds
    users,          \* part_002 / App: users
    cities,         \* part_002: cities
    inFlight,       \* part_001: the handlers suspended at an await of SealService
    written         \* part_001: the writes SealService has completed

vars == <<store, seals, currentUser, selectedSeals, searchResult, isMoveModalOpen,
          moveForm, safeMode, toast, clock, targetStatus, moveData, filteredSeals,
          isSearchPerformed, selectedIds, users, cities, inFlight, written>>

AsyncVars == <<inFlight, written>>

(* no handler is suspended *)
AsyncIdle == inFlight = {} /\ written = {}

-----------------------------------------------------------------------------
(* Bounds *)

MaxSeals == 4   \* seals in the collection
MaxClock == 2   \* handlers that write the collection, each at a later time
MaxCities == 5  \* names in the cities list

-----------------------------------------------------------------------------
(* Data *)

None == "none"

ENTRADA_INVENTARIO == "ENTRADA_INVENTARIO"
ASIGNADO           == "ASIGNADO"
ENTREGADO          == "ENTREGADO"
INSTALADO          == "INSTALADO"
SALIDA_FABRICA     == "SALIDA_FABRICA"
NO_INSTALADO       == "NO_INSTALADO"
DESTRUIDO          == "DESTRUIDO"

SealStatus == {ENTRADA_INVENTARIO, ASIGNADO, ENTREGADO, INSTALADO,
               SALIDA_FABRICA, NO_INSTALADO, DESTRUIDO}

(* a table in which an installed seal may be installed again *)
ALLOWED_TRANSITIONS_SelfLoop(st) ==
    CASE st = ENTRADA_INVENTARIO -> <<ASIGNADO, DESTRUIDO>>
      [] st = ASIGNADO           -> <<ENTREGADO, ENTRADA_INVENTARIO, DESTRUIDO>>
      [] st = ENTREGADO          -> <<INSTALADO, NO_INSTALADO, DESTRUIDO>>
      [] st = INSTALADO          -> <<SALIDA_FABRICA, INSTALADO, DESTRUIDO>>
      [] st = SALIDA_FABRICA     -> << >>
      [] st = NO_INSTALADO       -> <<DESTRUIDO, ENTRADA_INVENTARIO>>
      [] st = DESTRUIDO          -> << >>

(* a table without the way back from ASIGNADO to the inventory *)
ALLOWED_TRANSITIONS_NoReset(st) ==
    CASE st = ENTRADA_INVENTARIO -> <<ASIGNADO, DESTRUIDO>>
      [] st = ASIGNADO           -> <<ENTREGADO, DESTRUIDO>>
      [] st = ENTREGADO          -> <<INSTALADO, NO_INSTALADO, DESTRUIDO>>
      [] st = INSTALADO          -> <<SALIDA_FABRICA, DESTRUIDO>>
      [] st = SALIDA_FABRICA     -> << >>
      [] st = NO_INSTALADO       -> <<DESTRUIDO, ENTRADA_INVENTARIO>>
      [] st = DESTRUIDO          -> << >>

ALLOWED_TRANSITIONS(st) ==
    CASE st = ENTRADA_INVENTARIO -> <<ASIGNADO, DESTRUIDO>>
      [] st = ASIGNADO           -> <<ENTREGADO, ENTRADA_INVENTARIO, DESTRUIDO>>
      [] st = ENTREGADO          -> <<INSTALADO, NO_INSTALADO, DESTRUIDO>>
      [] st = INSTALADO          -> <<SALIDA_FABRICA, DESTRUIDO>>
      [] st = SALIDA_FABRICA     -> << >>
      [] st = NO_INSTALADO       -> <<DESTRUIDO, ENTRADA_INVENTARIO>>
      [] st = DESTRUIDO          -> << >>

Range(s) == {s[i] : i \in DOMAIN s}

(* A nullable value (null, undefined) is a sequence of length 0 or 1.       *)
(* Strings are sequences of characters, so that trimming and upper-casing  *)
(* are computed and not assumed.                                           *)
UpperChar(c) ==
    CASE c = "a" -> "A" [] c = "b" -> "B" [] c = "c" -> "C"
      [] c = "k" -> "K" [] c = "m" -> "M"
      [] c = "i" -> "I" [] c = "l" -> "L" [] OTHER -> c

toUpperCase(s) == [i \in DOMAIN s |-> UpperChar(s[i])]

RECURSIVE trimStart(_)
trimStart(s) == IF s # << >> /\ Head(s) = " " THEN trimStart(Tail(s)) ELSE s

RECURSIVE trimEnd(_)
trimEnd(s) ==
    IF s # << >> /\ s[Len(s)] = " " THEN trimEnd(SubSeq(s, 1, Len(s) - 1)) ELSE s

trim(s) == trimEnd(trimStart(s))

-----------------------------------------------------------------------------
(* Seals *)

Absent == "absent"   \* the key is not in the object

FieldNames == {"orderNumber", "containerId", "vehiclePlate", "assignedTo",
               "deliveredTo", "driverName", "destination", "observations"}

FieldValues == {"", "X"}   \* what the operator types into a form input

NoFields == [k \in FieldNames |-> Absent]

(* { ...a, ...b } restricted to the operational fields *)
Spread(a, b) == [k \in FieldNames |-> IF b[k] # Absent THEN b[k] ELSE a[k]]

Types == {"Botella", "Cable"}

(* a new seal that records no creation entry *)
NewSeal_NoEntry(id, type, user, now, fields) ==
    [id |-> id, type |-> type, status |-> ENTRADA_INVENTARIO,
     creationDate |-> now, lastMovement |-> now,
     entryUser |-> user.fullName, city |-> user.city,
     history |-> << >>,
     fields |-> fields]

(* the object literal of the registration handlers and of the imports *)
NewSeal(id, type, user, now, fields) ==
    [id |-> id, type |-> type, status |-> ENTRADA_INVENTARIO,
     creationDate |-> now, lastMovement |-> now,
     entryUser |-> user.fullName, city |-> user.city,
     history |-> << [date |-> now, fromStatus |-> None,
                     toStatus |-> ENTRADA_INVENTARIO, user |-> user.fullName] >>,
     fields |-> fields]

ADMIN  == "ADMIN"
GESTOR == "GESTOR"

(* ./constants is not among the sources: the mock user list and the mock   *)
(* data are taken from the data model of the specification.                *)
MOCK_USERS ==
    << [fullName |-> "ADMINISTRADOR", role |-> ADMIN,  city |-> "BOGOTA"],
       [fullName |-> "GESTOR MED",    role |-> GESTOR, city |-> "MEDELLIN"],
       [fullName |-> "GESTOR BOG",    role |-> GESTOR, city |-> "BOGOTA"] >>

MOCK_DATA ==
    << NewSeal(<<"K">>, "Botella", MOCK_USERS[1], 0, NoFields),
       NewSeal(<<"L">>, "Botella", MOCK_USERS[2], 0, NoFields),
       NewSeal(<<"M">>, "Botella", MOCK_USERS[2], 0, NoFields) >>

SISTEMA == [fullName |-> "SISTEMA", role |-> None, city |-> "BOGOTA"]

(* currentUser?.fullName || 'SISTEMA' *)
UserName(cu) == IF cu = << >> THEN "SISTEMA" ELSE cu[1].fullName

(* seals.find(p): the first element satisfying p, as a nullable *)
RECURSIVE FindById(_, _)
FindById(ss, id) ==
    IF ss = << >> THEN << >>
    ELSE IF Head(ss).id = id THEN << Head(ss) >> ELSE FindById(Tail(ss), id)

Toast(type, msg, ids) == << [type |-> type, msg |-> msg, ids |-> ids] >>

-----------------------------------------------------------------------------
(* SealService of part_001 (USE_MOCK_BACKEND = true): every call reads and *)
(* rewrites the whole of localStorage 'selloData'.                         *)

(* `st` is the localStorage item, a nullable collection *)
getAllSeals(st) == IF st = << >> THEN MOCK_DATA ELSE st[1]

saveSeal(st, seal) == << << seal >> \o getAllSeals(st) >>

updateSeal(st, updatedSeal) ==
    LET all == getAllSeals(st) IN
    << [i \in DOMAIN all |-> IF all[i].id = updatedSeal.id THEN updatedSeal ELSE all[i]] >>

deleteSeal(st, id) ==
    LET keep(s) == s.id # id IN << SelectSeq(getAllSeals(st), keep) >>

(* for (const s of newSeals) await SealService.saveSeal(s) *)
RECURSIVE saveAll(_, _)
saveAll(st, newSeals) ==
    IF newSeals = << >> THEN st
    ELSE saveAll(saveSeal(st, Head(newSeals)), Tail(newSeals))

(* for (const s of selectedSeals) { ...; await SealService.updateSeal(updated) } *)
RECURSIVE updateAll(_, _)
updateAll(st, updatedSeals) ==
    IF updatedSeals = << >> THEN st
    ELSE updateAll(updateSeal(st, Head(updatedSeals)), Tail(updatedSeals))

-----------------------------------------------------------------------------
(* part_001: App *)

(* the main screen is rendered (if (!currentUser) return the login form), and   *)
(* the operator acts once the toast of the previous action has timed out (3 s) *)
LoggedIn == currentUser # << >> /\ toast = << >>

(* no modal overlay covers the page *)
NoOverlay == searchResult = << >> /\ ~isMoveModalOpen

InitialMoveForm ==
    [status |-> None,
     fields |-> [k \in FieldNames |-> ""]]

(* setMoveForm({ status: undefined, observations: '', assignedTo: '', orderNumber: '' }) *)
ResetMoveForm ==
    [status |-> None,
     fields |-> [k \in FieldNames |->
                    IF k \in {"observations", "assignedTo", "orderNumber"} THEN "" ELSE Absent]]

(* inputs of the inventory page *)
RegisterInputs == { << <<"a">>, "Botella" >>, << <<"k">>, "Cable" >> }

TypedFields == {"assignedTo"}

Row(id, tipo) == [ID |-> id, Tipo |-> tipo]

ImportFiles == { << Row(<<"k">>, "") >>,
                 << Row(<<"b">>, "Cable"), Row(<<"b">>, "Cable") >> }

(* the text of the movement input, split at its commas *)
MovementInputs == { << << >> >>,
                    << <<"k">> >>,
                    << <<"k">>, <<" ", "a", " ">> >>,
                    << <<"M">> >>,
                    << <<"c">>, <<"m">> >> }

MoveDataNames == {"requester", "observations", "vehiclePlate", "trailerContainer",
                  "deliveredSub"}

(* useState({ requester: '', observations: '', vehiclePlate: '', ... }) *)
EmptyMoveData == [k \in MoveDataNames |-> ""]

NotUsed ==
    /\ targetStatus = None
    /\ moveData = EmptyMoveData
    /\ filteredSeals = << >>
    /\ isSearchPerformed = FALSE
    /\ selectedIds = << >>
    /\ AsyncIdle
    /\ users = << >>
    /\ cities = << >>

P1Init ==
    /\ store = << >>
    /\ seals = getAllSeals(store)
    /\ currentUser = << >>
    /\ selectedSeals = << >>
    /\ searchResult = << >>
    /\ isMoveModalOpen = FALSE
    /\ moveForm = InitialMoveForm
    /\ safeMode = FALSE
    /\ toast = << >>
    /\ clock = 0
    /\ NotUsed

P2Vars == <<targetStatus, moveData, filteredSeals, isSearchPerformed, selectedIds,
            users, cities, AsyncVars>>

(* new Date().toLocaleString(): the time at which a handler writes the     *)
(* collection is later than the time of the write before it                *)
Now == clock + 1

(* setTimeout(() => setToast(null), 3000) *)
ToastTimeout ==
    /\ toast # << >>
    /\ toast' = << >>
    /\ UNCHANGED <<store, seals, currentUser, selectedSeals, searchResult,
                   isMoveModalOpen, moveForm, safeMode, clock, P2Vars>>

P1_Login ==
    /\ currentUser = << >>
    /\ currentUser' = << MOCK_USERS[1] >>
    /\ UNCHANGED <<store, seals, selectedSeals, searchResult, isMoveModalOpen,
                   moveForm, safeMode, toast, clock, P2Vars>>

P1_Logout ==
    /\ LoggedIn /\ NoOverlay
    /\ currentUser' = << >>
    /\ UNCHANGED <<store, seals, selectedSeals, searchResult, isMoveModalOpen,
                   moveForm, safeMode, toast, clock, P2Vars>>

P1_ToggleSafeMode ==
    /\ LoggedIn /\ NoOverlay
    /\ safeMode' = ~safeMode
    /\ UNCHANGED <<store, seals, currentUser, selectedSeals, searchResult,
                   isMoveModalOpen, moveForm, toast, clock, P2Vars>>

(* "Registrar" of the new-seal modal *)
P1_Register(idInput, typeInput) ==
    /\ LoggedIn /\ NoOverlay
    /\ Len(seals) < MaxSeals /\ clock < MaxClock
    /\ IF FindById(seals, toUpperCase(idInput)) # << >>
       THEN /\ toast' = Toast("error", "El ID ya existe", << >>)
            /\ UNCHANGED <<store, seals, clock>>
       ELSE /\ store' = saveSeal(store, NewSeal(toUpperCase(idInput), typeInput,
                                                currentUser[1], Now, NoFields))
            /\ seals' = getAllSeals(store')
            /\ toast' = Toast("success", "Alta exitosa", << >>)
            /\ clock' = Now
    /\ UNCHANGED <<currentUser, selectedSeals, searchResult, isMoveModalOpen,
                   moveForm, safeMode, P2Vars>>

BulkSeals(data, cu, now) ==
    [i \in DOMAIN data |->
        NewSeal(toUpperCase(data[i].ID),
                IF data[i].Tipo = "" THEN "Botella" ELSE data[i].Tipo,
                IF cu = << >> THEN SISTEMA ELSE cu[1], now, NoFields)]

P1_handleBulkUpload(data) ==
    /\ LoggedIn /\ NoOverlay
    /\ Len(seals) + Len(data) <= MaxSeals /\ clock < MaxClock
    /\ store' = saveAll(store, BulkSeals(data, currentUser, Now))
    /\ seals' = getAllSeals(store')
    /\ toast' = Toast("success", "Se cargaron precintos", << >>)
    /\ clock' = Now
    /\ UNCHANGED <<currentUser, selectedSeals, searchResult, isMoveModalOpen,
                   moveForm, safeMode, P2Vars>>

(* a row of the inventory table: seals.filter(s => s.city === currentUser.city) *)
P1_RowClick(i) ==
    /\ LoggedIn /\ NoOverlay
    /\ seals[i].city = currentUser[1].city
    /\ searchResult' = << seals[i] >>
    /\ UNCHANGED <<store, seals, currentUser, selectedSeals, isMoveModalOpen,
                   moveForm, safeMode, toast, clock, P2Vars>>

P1_CloseDetail ==
    /\ LoggedIn /\ searchResult # << >> /\ ~isMoveModalOpen
    /\ searchResult' = << >>
    /\ UNCHANGED <<store, seals, currentUser, selectedSeals, isMoveModalOpen,
                   moveForm, safeMode, toast, clock, P2Vars>>

(* "Cambiar Estado" of the detail modal *)
P1_CambiarEstado ==
    /\ LoggedIn /\ searchResult # << >> /\ ~isMoveModalOpen
    /\ ALLOWED_TRANSITIONS(searchResult[1].status) # << >>
    /\ selectedSeals' = << searchResult[1] >>
    /\ isMoveModalOpen' = TRUE
    /\ UNCHANGED <<store, seals, currentUser, searchResult, moveForm, safeMode,
                   toast, clock, P2Vars>>

(* movementInput.split(',').map(id => id.trim().toUpperCase()).filter(id => id !== '') *)
RequestedIds(input) ==
    LET nonEmpty(id) == id # << >>
    IN SelectSeq([i \in DOMAIN input |-> toUpperCase(trim(input[i]))], nonEmpty)

(* !movementInput.trim(): the whole text is blank *)
BlankInput(input) == Len(input) = 1 /\ trim(input[1]) = << >>

(* !searchQuery: the text is empty *)
BlankQuery(input) == Len(input) = 1 /\ input[1] = << >>

invalidIds(ids, ss) ==
    LET missing(id) == FindById(ss, id) = << >> IN SelectSeq(ids, missing)

(* a lookup that never reports a seal of another site *)
wrongCityIds_None(ids, ss, cu) == << >>

wrongCityIds(ids, ss, cu) ==
    LET wrong(id) == /\ FindById(ss, id) # << >>
                     /\ FindById(ss, id)[1].city # cu[1].city
    IN SelectSeq(ids, wrong)

validFoundSeals(ids, ss, cu) ==
    LET valid(id) == /\ FindById(ss, id) # << >>
                     /\ FindById(ss, id)[1].city = cu[1].city
        kept == SelectSeq(ids, valid)
    IN [i \in DOMAIN kept |-> FindById(ss, kept[i])[1]]

P1_handleMassiveMovement(input) ==
    /\ LoggedIn /\ NoOverlay
    /\ LET ids == RequestedIds(input) IN
       IF BlankInput(input)
       THEN /\ toast' = Toast("error", "Ingrese al menos un ID de sello", << >>)
            /\ UNCHANGED <<selectedSeals, moveForm, isMoveModalOpen>>
       ELSE IF invalidIds(ids, seals) # << >>
       THEN /\ toast' = Toast("error", "no existen", invalidIds(ids, seals))
            /\ UNCHANGED <<selectedSeals, moveForm, isMoveModalOpen>>
       ELSE IF wrongCityIds(ids, seals, currentUser) # << >>
       THEN /\ toast' = Toast("error", "pertenecen a otra sede",
                              wrongCityIds(ids, seals, currentUser))
            /\ UNCHANGED <<selectedSeals, moveForm, isMoveModalOpen>>
       ELSE /\ selectedSeals' = validFoundSeals(ids, seals, currentUser)
            /\ moveForm' = ResetMoveForm
            /\ isMoveModalOpen' = TRUE
            /\ UNCHANGED toast
    /\ UNCHANGED <<store, seals, currentUser, searchResult, safeMode, clock, P2Vars>>

getCommonNextStatuses(sel) ==
    IF sel = << >> THEN << >>
    ELSE IF \E i \in DOMAIN sel : sel[i].status # sel[1].status THEN << >>
    ELSE ALLOWED_TRANSITIONS(sel[1].status)

(* a status button of the move modal *)
P1_ChooseStatus(st) ==
    /\ LoggedIn /\ isMoveModalOpen
    /\ st \in Range(getCommonNextStatuses(selectedSeals))
    /\ moveForm' = [moveForm EXCEPT !.status = st]
    /\ UNCHANGED <<store, seals, currentUser, selectedSeals, searchResult,
                   isMoveModalOpen, safeMode, toast, clock, P2Vars>>

(* renderStatusFields: the inputs shown for the chosen status *)
renderStatusFields(status) ==
    IF status = None THEN {}
    ELSE (IF status = ASIGNADO THEN {"assignedTo", "orderNumber"} ELSE {})
         \cup (IF status = INSTALADO THEN {"vehiclePlate", "containerId"} ELSE {})
         \cup {"observations"}

P1_TypeField(k, v) ==
    /\ LoggedIn /\ isMoveModalOpen
    /\ k \in renderStatusFields(moveForm.status)
    /\ moveForm.fields[k] # v
    /\ moveForm' = [moveForm EXCEPT !.fields[k] = v]
    /\ UNCHANGED <<store, seals, currentUser, selectedSeals, searchResult,
                   isMoveModalOpen, safeMode, toast, clock, P2Vars>>

(* "Abortar" and the close button of the move modal *)
P1_Abort ==
    /\ LoggedIn /\ isMoveModalOpen
    /\ isMoveModalOpen' = FALSE
    /\ UNCHANGED <<store, seals, currentUser, selectedSeals, searchResult,
                   moveForm, safeMode, toast, clock, P2Vars>>

(* a confirm that records the movement in the history and leaves the status *)
MovedSeal_StatusKept(s, form, cu, now) ==
    [s EXCEPT !.fields = Spread(s.fields, form.fields),
              !.lastMovement = now,
              !.history = << [date |-> now, fromStatus |-> s.status,
                              toStatus |-> form.status, user |-> UserName(cu)] >>
                          \o s.history]

(* a movement whose entry starts from the target status *)
MovedSeal_FromTarget(s, form, cu, now) ==
    [s EXCEPT !.fields = Spread(s.fields, form.fields),
              !.status = form.status,
              !.lastMovement = now,
              !.history = << [date |-> now, fromStatus |-> form.status,
                              toStatus |-> form.status, user |-> UserName(cu)] >>
                          \o s.history]

(* const updated = { ...s, ...moveForm, status, lastMovement, history: [..., ...s.history] } *)
MovedSeal(s, form, cu, now) ==
    [s EXCEPT !.fields = Spread(s.fields, form.fields),
              !.status = form.status,
              !.lastMovement = now,
              !.history = << [date |-> now, fromStatus |-> s.status,
                              toStatus |-> form.status, user |-> UserName(cu)] >>
                          \o s.history]

P1_handleConfirmMove ==
    /\ LoggedIn /\ isMoveModalOpen
    /\ moveForm.status # None
    /\ clock < MaxClock
    /\ store' = updateAll(store, [i \in DOMAIN selectedSeals |->
                                    MovedSeal(selectedSeals[i], moveForm, currentUser, Now)])
    /\ seals' = getAllSeals(store')
    /\ isMoveModalOpen' = FALSE
    /\ selectedSeals' = << >>
    /\ toast' = Toast("success", "Movimiento validado y guardado", << >>)
    /\ clock' = Now
    /\ UNCHANGED <<currentUser, searchResult, moveForm, safeMode, P2Vars>>

(* the trash button of an inventory row, shown when safeMode && role === ADMIN *)
P1_handleDeleteSeal(i, confirmed) ==
    /\ LoggedIn /\ NoOverlay
    /\ seals[i].city = currentUser[1].city
    /\ safeMode /\ currentUser[1].role = ADMIN
    /\ IF ~confirmed
       THEN UNCHANGED <<store, seals, toast, searchResult>>
       ELSE /\ clock < MaxClock
            /\ store' = deleteSeal(store, seals[i].id)
            /\ seals' = getAllSeals(store')
            /\ toast' = Toast("success", "eliminado", << seals[i].id >>)
            /\ searchResult' = IF searchResult # << >> /\ searchResult[1].id = seals[i].id
                               THEN << >> ELSE searchResult
    /\ clock' = IF confirmed THEN Now ELSE clock
    /\ UNCHANGED <<currentUser, selectedSeals, isMoveModalOpen, moveForm, safeMode,
                   P2Vars>>

P1Next ==
    \/ ToastTimeout
    \/ P1_Login
    \/ P1_Logout
    \/ P1_ToggleSafeMode
    \/ \E r \in RegisterInputs : P1_Register(r[1], r[2])
    \/ \E data \in ImportFiles : P1_handleBulkUpload(data)
    \/ \E i \in DOMAIN seals : P1_RowClick(i)
    \/ P1_CloseDetail
    \/ P1_CambiarEstado
    \/ \E input \in MovementInputs : P1_handleMassiveMovement(input)
    \/ \E st \in SealStatus : P1_ChooseStatus(st)
    \/ \E k \in TypedFields, v \in FieldValues : P1_TypeField(k, v)
    \/ P1_Abort
    \/ P1_handleConfirmMove
    \/ \E i \in DOMAIN seals, confirmed \in BOOLEAN : P1_handleDeleteSeal(i, confirmed)

SpecP1 == P1Init /\ [][P1Next]_vars

(* A later session: localStorage 'selloData' holds the collection saved by  *)
(* an earlier one, in which the operator registered K and moved it along    *)
(* ASIGNADO, ENTREGADO and INSTALADO with handleConfirmMove.                *)
SavedForm(st) ==
    [status |-> st,
     fields |-> [ResetMoveForm.fields EXCEPT !["assignedTo"] = "X"]]

SavedK ==
    LET cu == << MOCK_USERS[1] >>
        k0 == NewSeal(<<"K">>, "Botella", MOCK_USERS[1], -3, NoFields)
        k1 == MovedSeal(k0, SavedForm(ASIGNADO), cu, -2)
        k2 == MovedSeal(k1, SavedForm(ENTREGADO), cu, -1)
    IN MovedSeal(k2, SavedForm(INSTALADO), cu, 0)

SavedData == << SavedK, MOCK_DATA[3] >>

P1SavedInit ==
    /\ store = << SavedData >>
    /\ seals = getAllSeals(store)
    /\ currentUser = << >>
    /\ selectedSeals = << >>
    /\ searchResult = << >>
    /\ isMoveModalOpen = FALSE
    /\ moveForm = InitialMoveForm
    /\ safeMode = FALSE
    /\ toast = << >>
    /\ clock = 0
    /\ NotUsed

SpecP1Saved == P1SavedInit /\ [][P1Next]_vars

(* part_001 with the awaits of its handlers as steps. Every function of     *)
(* SealService reads 'selloData', awaits, and writes the whole collection   *)
(* back; a handler awaits each call in turn. Window A is the page whose     *)
(* state the model follows; window B is a second page of the same browser,  *)
(* logged in as the same user, which shares localStorage and runs a         *)
(* spreadsheet import. A suspended handler is                               *)
(* [window, op, todo: the seals still to write, read: the collection the    *)
(* pending call has read, if a call is pending].                            *)
Idle(w) == \A h \in inFlight : h.window # w

UiVars == <<targetStatus, moveData, filteredSeals, isSearchPerformed, selectedIds,
            users, cities>>

(* the spreadsheets of window B *)
OtherWindowFiles == { << Row(<<"b">>, "Cable"), Row(<<"b">>, "Cable") >> }

(* handleConfirmMove up to its first await: the first updateSeal has read *)
Async_handleConfirmMove ==
    /\ Idle("A")
    /\ LoggedIn /\ isMoveModalOpen
    /\ moveForm.status # None
    /\ selectedSeals # << >>
    /\ clock < MaxClock
    /\ inFlight' = inFlight \cup
          {[window |-> "A", op |-> "updateSeal",
            todo |-> [i \in DOMAIN selectedSeals |->
                         MovedSeal(selectedSeals[i], moveForm, currentUser, Now)],
            read |-> << getAllSeals(store) >>]}
    /\ clock' = Now
    /\ UNCHANGED <<store, seals, currentUser, selectedSeals, searchResult,
                   isMoveModalOpen, moveForm, safeMode, toast, written, UiVars>>

(* reader.onload of handleBulkUpload in window B up to its first await *)
Async_handleBulkUpload(data) ==
    /\ Idle("B")
    /\ currentUser # << >>
    /\ Len(getAllSeals(store)) + Len(data) <= MaxSeals /\ clock < MaxClock
    /\ inFlight' = inFlight \cup
          {[window |-> "B", op |-> "saveSeal",
            todo |-> BulkSeals(data, currentUser, Now),
            read |-> << getAllSeals(store) >>]}
    /\ clock' = Now
    /\ UNCHANGED <<store, seals, currentUser, selectedSeals, searchResult,
                   isMoveModalOpen, moveForm, safeMode, toast, written, UiVars>>

(* the pending call resumes after its await: it writes the collection it read *)
Async_Resume(h) ==
    /\ h \in inFlight /\ h.read # << >>
    /\ store' = IF h.op = "updateSeal"
                THEN updateSeal(h.read, Head(h.todo))
                ELSE saveSeal(h.read, Head(h.todo))
    /\ inFlight' = (inFlight \ {h}) \cup {[h EXCEPT !.todo = Tail(h.todo), !.read = << >>]}
    /\ written' = written \cup {[op |-> h.op, seal |-> Head(h.todo)]}
    /\ UNCHANGED <<seals, currentUser, selectedSeals, searchResult, isMoveModalOpen,
                   moveForm, safeMode, toast, clock, UiVars>>

(* the handler resumes after the call and makes the next one, which reads *)
Async_Call(h) ==
    /\ h \in inFlight /\ h.read = << >> /\ h.todo # << >>
    /\ inFlight' = (inFlight \ {h}) \cup {[h EXCEPT !.read = << getAllSeals(store) >>]}
    /\ UNCHANGED <<store, seals, currentUser, selectedSeals, searchResult,
                   isMoveModalOpen, moveForm, safeMode, toast, clock, written, UiVars>>

(* after the loop: setSeals(await SealService.getAllSeals()) and the rest *)
Async_Return(h) ==
    /\ h \in inFlight /\ h.read = << >> /\ h.todo = << >>
    /\ inFlight' = inFlight \ {h}
    /\ IF h.window = "A"
       THEN /\ seals' = getAllSeals(store)
            /\ isMoveModalOpen' = FALSE
            /\ selectedSeals' = << >>
            /\ toast' = Toast("success", "Movimiento validado y guardado", << >>)
       ELSE UNCHANGED <<seals, isMoveModalOpen, selectedSeals, toast>>
    /\ UNCHANGED <<store, currentUser, searchResult, moveForm, safeMode, clock,
                   written, UiVars>>

P1AsyncNext ==
    \/ ToastTimeout
    \/ P1_Login
    \/ \E input \in MovementInputs : Idle("A") /\ P1_handleMassiveMovement(input)
    \/ \E st \in SealStatus : Idle("A") /\ P1_ChooseStatus(st)
    \/ Idle("A") /\ P1_Abort
    \/ Async_handleConfirmMove
    \/ \E data \in OtherWindowFiles : Async_handleBulkUpload(data)
    \/ \E h \in inFlight : Async_Resume(h)
    \/ \E h \in inFlight : Async_Call(h)
    \/ \E h \in inFlight : Async_Return(h)

SpecP1Async == P1SavedInit /\ [][P1AsyncNext]_vars

-----------------------------------------------------------------------------
(* src/App.tsx: App and its MovementsView *)

P1Vars == <<searchResult, moveForm, safeMode, AsyncVars>>

DefaultCities == <<"BOGOTA", "MEDELLIN", "CALI", "BARRANQUILLA">>

(* useEffect(() => { if (seals.length > 0) api.saveSeals(seals); }, [seals]) *)
saveSeals(st, ss) == IF Len(ss) > 0 THEN << ss >> ELSE st

AppInit ==
    /\ seals = getAllSeals(<< >>)
    /\ store = saveSeals(<< >>, seals)
    /\ users = MOCK_USERS
    /\ cities = DefaultCities
    /\ currentUser = << >>
    /\ filteredSeals = << >>
    /\ isSearchPerformed = FALSE
    /\ selectedSeals = << >>
    /\ targetStatus = None
    /\ isMoveModalOpen = FALSE
    /\ moveData = EmptyMoveData
    /\ toast = << >>
    /\ selectedIds = << >>
    /\ clock = 0
    /\ searchResult = << >>
    /\ moveForm = InitialMoveForm
    /\ AsyncIdle
    /\ safeMode = FALSE

(* LoginScreen: users.find(x => x.username === u && x.password === p) *)
App_handleLogin(u) ==
    /\ currentUser = << >>
    /\ currentUser' = << u >>
    /\ UNCHANGED <<store, seals, selectedSeals, isMoveModalOpen, toast, clock,
                   targetStatus, moveData, filteredSeals, isSearchPerformed,
                   selectedIds, users, cities, P1Vars>>

(* the login screen replaces the page: MovementsView and its selectedIds are dropped *)
App_handleLogout ==
    /\ currentUser # << >> /\ ~isMoveModalOpen
    /\ currentUser' = << >>
    /\ selectedIds' = << >>
    /\ UNCHANGED <<store, seals, selectedSeals, isMoveModalOpen, toast, clock,
                   targetStatus, moveData, filteredSeals, isSearchPerformed,
                   users, cities, P1Vars>>

(* seals.filter(s => s.city === user.city) *)
citySeals(ss, cu) ==
    LET mine(s) == s.city = cu[1].city IN SelectSeq(ss, mine)

includes(list, x) == \E i \in DOMAIN list : list[i] = x

App_toggleSelect(i) ==
    /\ currentUser # << >> /\ ~isMoveModalOpen
    /\ i \in DOMAIN citySeals(seals, currentUser)
    /\ LET id == citySeals(seals, currentUser)[i].id
           other(x) == x # id
       IN selectedIds' = IF includes(selectedIds, id)
                         THEN SelectSeq(selectedIds, other)
                         ELSE Append(selectedIds, id)
    /\ UNCHANGED <<store, seals, currentUser, selectedSeals, isMoveModalOpen, toast,
                   clock, targetStatus, moveData, filteredSeals, isSearchPerformed,
                   users, cities, P1Vars>>

(* setActiveTab(another tab): MovementsView is unmounted and its state is lost *)
App_setActiveTab ==
    /\ currentUser # << >> /\ ~isMoveModalOpen
    /\ selectedIds # << >>
    /\ selectedIds' = << >>
    /\ UNCHANGED <<store, seals, currentUser, selectedSeals, isMoveModalOpen, toast,
                   clock, targetStatus, moveData, filteredSeals, isSearchPerformed,
                   users, cities, P1Vars>>

(* "Pasar a <status>": one button for every status, disabled when nothing is selected *)
App_handleAction(status) ==
    /\ currentUser # << >> /\ ~isMoveModalOpen
    /\ selectedIds # << >>
    /\ LET chosen(s) == includes(selectedIds, s.id)
           selected == SelectSeq(citySeals(seals, currentUser), chosen)
       IN IF selected = << >>
          THEN UNCHANGED <<selectedSeals, targetStatus, isMoveModalOpen, selectedIds>>
          ELSE /\ selectedSeals' = selected
               /\ targetStatus' = status
               /\ isMoveModalOpen' = TRUE
               /\ selectedIds' = << >>
    /\ UNCHANGED <<store, seals, currentUser, toast, clock, moveData, filteredSeals,
                   isSearchPerformed, users, cities, P1Vars>>

(* the observations textarea of the move form *)
App_TypeObservations(v) ==
    /\ currentUser # << >> /\ isMoveModalOpen
    /\ moveData.observations # v
    /\ moveData' = [moveData EXCEPT !.observations = v]
    /\ UNCHANGED <<store, seals, currentUser, selectedSeals, isMoveModalOpen, toast,
                   clock, targetStatus, filteredSeals, isSearchPerformed, selectedIds,
                   users, cities, P1Vars>>

App_Cancelar ==
    /\ currentUser # << >> /\ isMoveModalOpen
    /\ isMoveModalOpen' = FALSE
    /\ UNCHANGED <<store, seals, currentUser, selectedSeals, toast, clock,
                   targetStatus, moveData, filteredSeals, isSearchPerformed,
                   selectedIds, users, cities, P1Vars>>

(* { ...s, status: targetStatus, lastMovement: now, history: [{...}, ...s.history] } *)
App_MovedSeal(s, target, cu, now) ==
    [s EXCEPT !.status = target,
              !.lastMovement = now,
              !.history = << [date |-> now, fromStatus |-> s.status,
                              toStatus |-> target, user |-> UserName(cu)] >>
                          \o s.history]

App_handleConfirmMovement ==
    /\ currentUser # << >> /\ isMoveModalOpen
    /\ targetStatus # None
    /\ clock < MaxClock
    /\ seals' = [i \in DOMAIN seals |->
                    IF \E k \in DOMAIN selectedSeals : selectedSeals[k].id = seals[i].id
                    THEN App_MovedSeal(seals[i], targetStatus, currentUser, Now)
                    ELSE seals[i]]
    /\ store' = saveSeals(store, seals')
    /\ isMoveModalOpen' = FALSE
    /\ toast' = Toast("success", "Movimiento registrado", << >>)
    /\ clock' = Now
    /\ UNCHANGED <<currentUser, selectedSeals, targetStatus, moveData, filteredSeals,
                   isSearchPerformed, selectedIds, users, cities, P1Vars>>

AppNext ==
    \/ \E i \in DOMAIN users : App_handleLogin(users[i])
    \/ App_handleLogout
    \/ \E i \in DOMAIN seals : App_toggleSelect(i)
    \/ App_setActiveTab
    \/ \E status \in SealStatus : App_handleAction(status)
    \/ \E v \in FieldValues : App_TypeObservations(v)
    \/ App_Cancelar
    \/ App_handleConfirmMovement

SpecApp == AppInit /\ [][AppNext]_vars

-----------------------------------------------------------------------------
(* src/unnamed/part_002: App, its inventory tab and its MovementsView.      *)
(* `isMoveModalOpen` is isMoveFormOpen, `safeMode` is isDeleteModeActive,   *)
(* and `toast` also holds the text of the last alert().                     *)
(* The management of users, cities and settings is left out: `users` and    *)
(* `cities` keep their initial values.                                      *)

sealTypes == <<"Botella", "Cable">>

P2Init ==
    /\ seals = getAllSeals(<< >>)
    /\ store = saveSeals(<< >>, seals)
    /\ users = MOCK_USERS
    /\ cities = DefaultCities
    /\ currentUser = << >>
    /\ filteredSeals = << >>
    /\ isSearchPerformed = FALSE
    /\ selectedSeals = << >>
    /\ targetStatus = None
    /\ isMoveModalOpen = FALSE
    /\ moveData = EmptyMoveData
    /\ toast = << >>
    /\ safeMode = FALSE
    /\ clock = 0
    /\ selectedIds = << >>
    /\ searchResult = << >>
    /\ moveForm = InitialMoveForm
    /\ AsyncIdle

OtherVars == <<selectedIds, searchResult, moveForm, users, cities, AsyncVars>>

(* {isMoveFormOpen && selectedSeals.length > 0 && <modal>} *)
P2_ModalShown == isMoveModalOpen /\ Len(selectedSeals) > 0

(* the page, with the session open and no modal over it *)
P2_Page == LoggedIn /\ ~P2_ModalShown

P2_handleLogin(u) ==
    /\ currentUser = << >>
    /\ currentUser' = << u >>
    /\ isSearchPerformed' = FALSE
    /\ filteredSeals' = << >>
    /\ UNCHANGED <<store, seals, selectedSeals, isMoveModalOpen, safeMode, toast, clock,
                   targetStatus, moveData, OtherVars>>

P2_handleLogout ==
    /\ P2_Page
    /\ currentUser' = << >>
    /\ isSearchPerformed' = FALSE
    /\ safeMode' = FALSE
    /\ UNCHANGED <<store, seals, selectedSeals, isMoveModalOpen, toast, clock,
                   targetStatus, moveData, filteredSeals, OtherVars>>

(* "Modo Seguro (Borrado)", shown to an ADMIN on the inventory tab *)
P2_setIsDeleteModeActive ==
    /\ P2_Page
    /\ currentUser[1].role = ADMIN
    /\ safeMode' = ~safeMode
    /\ UNCHANGED <<store, seals, currentUser, selectedSeals, isMoveModalOpen, toast,
                   clock, targetStatus, moveData, filteredSeals, isSearchPerformed,
                   OtherVars>>

(* the "Inventario" tab button and "Limpiar Resultados" *)
P2_LimpiarResultados ==
    /\ P2_Page
    /\ isSearchPerformed
    /\ isSearchPerformed' = FALSE
    /\ UNCHANGED <<store, seals, currentUser, selectedSeals, isMoveModalOpen, safeMode,
                   toast, clock, targetStatus, moveData, filteredSeals, OtherVars>>

checkSealDuplicate(ss, id, type) ==
    \E i \in DOMAIN ss : ss[i].id = id /\ ss[i].type = type

(* orderNumber: '-', containerId: '-' of a new seal *)
DashFields == [NoFields EXCEPT !["orderNumber"] = "-", !["containerId"] = "-"]

(* "Registrar" of the new-seal modal, with handleAddSeal *)
P2_Register(idInput, typeInput) ==
    /\ P2_Page
    /\ Len(seals) < MaxSeals /\ clock < MaxClock
    /\ LET id == toUpperCase(idInput) IN
       IF id = << >>
       THEN /\ toast' = Toast("alert", "ID obligatorio", << >>)
            /\ UNCHANGED <<store, seals, clock>>
       ELSE IF checkSealDuplicate(seals, id, typeInput)
       THEN /\ toast' = Toast("error", "Sello ya existe, favor verificar", << >>)
            /\ UNCHANGED <<store, seals, clock>>
       ELSE /\ seals' = << NewSeal(id, typeInput, currentUser[1], Now, DashFields) >>
                        \o seals
            /\ store' = saveSeals(store, seals')
            /\ toast' = Toast("success", "PRECINTO REGISTRADO", << >>)
            /\ clock' = Now
    /\ UNCHANGED <<currentUser, selectedSeals, isMoveModalOpen, safeMode, targetStatus,
                   moveData, filteredSeals, isSearchPerformed, OtherVars>>

(* the loop of handleExcelImport over the rows below the header:            *)
(* [newSealsBatch, duplicateCount] after the rows of `data`                 *)
RECURSIVE ImportLoop(_, _, _, _, _, _)
ImportLoop(data, ss, cu, now, newSealsBatch, duplicateCount) ==
    IF data = << >> THEN << newSealsBatch, duplicateCount >>
    ELSE LET sealId == toUpperCase(Head(data).ID)
             sealType == sealTypes[1]
         IN IF sealId = << >>
            THEN ImportLoop(Tail(data), ss, cu, now, newSealsBatch, duplicateCount)
            ELSE IF \/ checkSealDuplicate(ss, sealId, sealType)
                    \/ checkSealDuplicate(newSealsBatch, sealId, sealType)
            THEN ImportLoop(Tail(data), ss, cu, now, newSealsBatch, duplicateCount + 1)
            ELSE ImportLoop(Tail(data), ss, cu, now,
                            Append(newSealsBatch,
                                   NewSeal(sealId, sealType, cu, now, DashFields)),
                            duplicateCount)

ToastCount(type, msg, n) == << [type |-> type, msg |-> msg, ids |-> << >>, count |-> n] >>

P2_handleExcelImport(data) ==
    /\ P2_Page
    /\ Len(seals) + Len(data) <= MaxSeals /\ clock < MaxClock
    /\ LET r == ImportLoop(data, seals, currentUser[1], Now, << >>, 0)
           newSealsBatch == r[1]
           duplicateCount == r[2]
       IN IF Len(newSealsBatch) > 0
          THEN /\ seals' = newSealsBatch \o seals
               /\ store' = saveSeals(store, seals')
               /\ toast' = ToastCount(IF duplicateCount > 0 THEN "error" ELSE "success",
                                      "SELLOS CARGADOS EXITOSAMENTE", duplicateCount)
               /\ clock' = Now
          ELSE /\ toast' = IF duplicateCount > 0
                           THEN Toast("error", "Sello ya existe, favor verificar", << >>)
                           ELSE Toast("alert", "No se encontraron registros", << >>)
               /\ UNCHANGED <<store, seals, clock>>
    /\ UNCHANGED <<currentUser, selectedSeals, isMoveModalOpen, safeMode, targetStatus,
                   moveData, filteredSeals, isSearchPerformed, OtherVars>>

(* the filters of the search modal; idSello is left empty *)
SearchFilters == { [estado |-> "", tipo |-> "Todos"],
                   [estado |-> ENTRADA_INVENTARIO, tipo |-> "Todos"] }

P2_handleInventorySearch(filters) ==
    /\ P2_Page
    /\ LET byFilters(s) == /\ filters.estado # "" => s.status = filters.estado
                           /\ filters.tipo # "Todos" => s.type = filters.tipo
       IN filteredSeals' = SelectSeq(citySeals(seals, currentUser), byFilters)
    /\ isSearchPerformed' = TRUE
    /\ UNCHANGED <<store, seals, currentUser, selectedSeals, isMoveModalOpen, safeMode,
                   toast, clock, targetStatus, moveData, OtherVars>>

initiateMovement(selectedBatch, status) ==
    /\ selectedSeals' = selectedBatch
    /\ targetStatus' = status
    /\ moveData' = EmptyMoveData
    /\ isMoveModalOpen' = TRUE

(* a row of the result table: !isDeleteModeActive && initiateMovement([s], s.status) *)
P2_RowClick(i) ==
    /\ P2_Page
    /\ isSearchPerformed /\ i \in DOMAIN filteredSeals
    /\ ~safeMode
    /\ initiateMovement(<< filteredSeals[i] >>, filteredSeals[i].status)
    /\ UNCHANGED <<store, seals, currentUser, safeMode, toast, clock, filteredSeals,
                   isSearchPerformed, OtherVars>>

(* the trash button of a row, shown when isDeleteModeActive && role === ADMIN *)
P2_handleDeleteSeal(i, confirmed) ==
    /\ P2_Page
    /\ isSearchPerformed /\ i \in DOMAIN filteredSeals
    /\ safeMode /\ currentUser[1].role = ADMIN
    /\ LET keep(s) == s.id # filteredSeals[i].id IN
       IF ~confirmed
       THEN UNCHANGED <<store, seals, filteredSeals, toast>>
       ELSE /\ clock < MaxClock
            /\ seals' = SelectSeq(seals, keep)
            /\ store' = saveSeals(store, seals')
            /\ filteredSeals' = SelectSeq(filteredSeals, keep)
            /\ toast' = Toast("success", "Sello eliminado con exito", << >>)
    /\ clock' = IF confirmed THEN Now ELSE clock
    /\ UNCHANGED <<currentUser, selectedSeals, isMoveModalOpen, safeMode,
                   targetStatus, moveData, isSearchPerformed, OtherVars>>

(* MovementsView: foundSeals, allFound and commonStatus of the typed searchQuery *)
foundSeals(input, ss, cu) ==
    LET wanted(s) == includes(RequestedIds(input), s.id) /\ s.city = cu[1].city
    IN IF BlankQuery(input) THEN << >> ELSE SelectSeq(ss, wanted)

allFound(input, ss, cu) ==
    IF BlankQuery(input) THEN FALSE
    ELSE Len(foundSeals(input, ss, cu)) = Len(RequestedIds(input))

MIXED == "MIXED"

commonStatus(found) ==
    IF Len(found) = 0 THEN None
    ELSE IF \A i \in DOMAIN found : found[i].status = found[1].status
         THEN found[1].status
         ELSE MIXED

isFinal(cs) == cs = SALIDA_FABRICA \/ cs = DESTRUIDO

(* the buttons offered for a status, by MovementsView and by the chooser of the modal *)
MoveButtons(cs) ==
    (IF cs = ENTRADA_INVENTARIO \/ cs = NO_INSTALADO THEN {ASIGNADO} ELSE {})
    \cup (IF cs = ASIGNADO THEN {ENTREGADO} ELSE {})
    \cup (IF cs = ENTREGADO THEN {INSTALADO, NO_INSTALADO} ELSE {})
    \cup (IF cs = INSTALADO THEN {SALIDA_FABRICA} ELSE {})
    \cup {DESTRUIDO}

(* "Validar Lote": handleSearch only raises alerts *)
P2_handleSearch(input) ==
    /\ P2_Page
    /\ LET found == foundSeals(input, seals, currentUser) IN
       IF Len(found) < Len(RequestedIds(input))
       THEN toast' = Toast("alert", "Uno o mas precintos no existen en la sede", << >>)
       ELSE IF commonStatus(found) = MIXED
       THEN toast' = Toast("alert", "Error de Lote", << >>)
       ELSE UNCHANGED toast
    /\ UNCHANGED <<store, seals, currentUser, selectedSeals, isMoveModalOpen, safeMode,
                   clock, targetStatus, moveData, filteredSeals, isSearchPerformed,
                   OtherVars>>

(* a move button of MovementsView for the typed query *)
P2_onInitiateMove(input, status) ==
    /\ P2_Page
    /\ LET found == foundSeals(input, seals, currentUser) IN
       /\ Len(found) > 0
       /\ allFound(input, seals, currentUser)
       /\ commonStatus(found) # MIXED
       /\ ~isFinal(commonStatus(found))
       /\ status \in MoveButtons(commonStatus(found))
       /\ initiateMovement(found, status)
    /\ UNCHANGED <<store, seals, currentUser, safeMode, toast, clock, filteredSeals,
                   isSearchPerformed, OtherVars>>

(* the modal shows the chooser when targetStatus === selectedSeals[0].status *)
P2_ChooserShown == P2_ModalShown /\ targetStatus = selectedSeals[1].status

P2_setTargetStatus(status) ==
    /\ LoggedIn /\ P2_ChooserShown
    /\ status \in MoveButtons(selectedSeals[1].status)
    /\ targetStatus' = status
    /\ UNCHANGED <<store, seals, currentUser, selectedSeals, isMoveModalOpen, safeMode,
                   toast, clock, moveData, filteredSeals, isSearchPerformed, OtherVars>>

(* "Atras": setTargetStatus(selectedSeals[0]?.status || null) *)
P2_Atras ==
    /\ LoggedIn /\ P2_ModalShown /\ ~P2_ChooserShown
    /\ targetStatus' = selectedSeals[1].status
    /\ UNCHANGED <<store, seals, currentUser, selectedSeals, isMoveModalOpen, safeMode,
                   toast, clock, moveData, filteredSeals, isSearchPerformed, OtherVars>>

(* the close button of the modal *)
P2_CloseMoveForm ==
    /\ LoggedIn /\ P2_ModalShown
    /\ isMoveModalOpen' = FALSE
    /\ UNCHANGED <<store, seals, currentUser, selectedSeals, safeMode, toast, clock,
                   targetStatus, moveData, filteredSeals, isSearchPerformed, OtherVars>>

(* the inputs the form shows for a target status *)
FormInputs(target) ==
    (IF target = ASIGNADO \/ target = ENTREGADO THEN {"requester"}
     ELSE IF target = INSTALADO THEN {"vehiclePlate", "trailerContainer"}
     ELSE IF target = NO_INSTALADO THEN {"deliveredSub"}
     ELSE {})
    \cup {"observations"}

P2_TypeMoveData(k, v) ==
    /\ LoggedIn /\ P2_ModalShown /\ ~P2_ChooserShown
    /\ k \in FormInputs(targetStatus)
    /\ moveData[k] # v
    /\ moveData' = [moveData EXCEPT ![k] = v]
    /\ UNCHANGED <<store, seals, currentUser, selectedSeals, isMoveModalOpen, safeMode,
                   toast, clock, targetStatus, filteredSeals, isSearchPerformed,
                   OtherVars>>

(* the alert of handleConfirmMovement for an empty required field, "" when none *)
MissingFieldAlert(target, data) ==
    IF target = ASIGNADO \/ target = ENTREGADO
    THEN (IF data.requester = "" THEN "El Usuario Receptor es obligatorio." ELSE "")
    ELSE IF target = INSTALADO
    THEN (IF data.vehiclePlate = "" \/ data.trailerContainer = ""
          THEN "Placa y Contenedor obligatorios." ELSE "")
    ELSE IF target = NO_INSTALADO
    THEN (IF data.deliveredSub = "" THEN "El campo 'Entregado sub:' es obligatorio." ELSE "")
    ELSE IF target = DESTRUIDO
    THEN (IF data.observations = "" THEN "El Motivo es obligatorio." ELSE "")
    ELSE ""

(* { ...s, status, lastMovement, entryUser, history: [{...}, ...s.history] } *)
P2_MovedSeal(s, target, cu, now) ==
    [s EXCEPT !.status = target,
              !.lastMovement = now,
              !.entryUser = UserName(cu),
              !.history = << [date |-> now, fromStatus |-> s.status,
                              toStatus |-> target, user |-> UserName(cu)] >>
                          \o s.history]

P2_handleConfirmMovement ==
    /\ LoggedIn /\ P2_ModalShown /\ ~P2_ChooserShown
    /\ targetStatus # None
    /\ clock < MaxClock
    /\ IF MissingFieldAlert(targetStatus, moveData) # ""
       THEN /\ toast' = Toast("alert", MissingFieldAlert(targetStatus, moveData), << >>)
            /\ UNCHANGED <<store, seals, filteredSeals, isMoveModalOpen, selectedSeals,
                           targetStatus, clock>>
       ELSE LET updated ==
                  [i \in DOMAIN seals |->
                      IF \E k \in DOMAIN selectedSeals : selectedSeals[k].id = seals[i].id
                      THEN P2_MovedSeal(seals[i], targetStatus, currentUser, Now)
                      ELSE seals[i]]
            IN /\ seals' = updated
               /\ store' = saveSeals(store, seals')
               /\ filteredSeals' =
                     IF isSearchPerformed
                     THEN [i \in DOMAIN filteredSeals |->
                              IF FindById(updated, filteredSeals[i].id) # << >>
                              THEN FindById(updated, filteredSeals[i].id)[1]
                              ELSE filteredSeals[i]]
                     ELSE filteredSeals
               /\ isMoveModalOpen' = FALSE
               /\ selectedSeals' = << >>
               /\ targetStatus' = None
               /\ toast' = Toast("success", "Movimiento procesado correctamente", << >>)
               /\ clock' = Now
    /\ UNCHANGED <<currentUser, safeMode, moveData, isSearchPerformed, OtherVars>>

P2Next ==
    \/ ToastTimeout
    \/ \E i \in DOMAIN users : P2_handleLogin(users[i])
    \/ P2_handleLogout
    \/ P2_setIsDeleteModeActive
    \/ P2_LimpiarResultados
    \/ \E r \in RegisterInputs : P2_Register(r[1], r[2])
    \/ \E data \in ImportFiles : P2_handleExcelImport(data)
    \/ \E filters \in SearchFilters : P2_handleInventorySearch(filters)
    \/ \E i \in DOMAIN filteredSeals : P2_RowClick(i)
    \/ \E i \in DOMAIN filteredSeals, confirmed \in BOOLEAN : P2_handleDeleteSeal(i, confirmed)
    \/ \E input \in MovementInputs : P2_handleSearch(input)
    \/ \E input \in MovementInputs, status \in SealStatus : P2_onInitiateMove(input, status)
    \/ \E status \in SealStatus : P2_setTargetStatus(status)
    \/ P2_Atras
    \/ P2_CloseMoveForm
    \/ \E k \in MoveDataNames, v \in FieldValues : P2_TypeMoveData(k, v)
    \/ P2_handleConfirmMovement

SpecP2 == P2Init /\ [][P2Next]_vars

(* A later session of part_002: the load effect finds under 'selloData' a   *)
(* collection of one seal, as handleRestoreDB writes it from a backup file  *)
(* before the page is loaded again.                                         *)
RestoredData == << MOCK_DATA[1] >>

P2RestoredInit ==
    /\ store = << RestoredData >>
    /\ seals = getAllSeals(store)
    /\ users = MOCK_USERS
    /\ cities = DefaultCities
    /\ currentUser = << >>
    /\ filteredSeals = << >>
    /\ isSearchPerformed = FALSE
    /\ selectedSeals = << >>
    /\ targetStatus = None
    /\ isMoveModalOpen = FALSE
    /\ moveData = EmptyMoveData
    /\ toast = << >>
    /\ safeMode = FALSE
    /\ clock = 0
    /\ selectedIds = << >>
    /\ searchResult = << >>
    /\ moveForm = InitialMoveForm
    /\ AsyncIdle

SpecP2Restored == P2RestoredInit /\ [][P2Next]_vars

(* part_002: the "Ciudades" tab of an ADMIN (CityManagement) next to the    *)
(* registration and the import of seals. City names are strings; the text   *)
(* typed into the form is a sequence of characters, cleaned as handleSubmit *)
(* cleans it and then read as a name.                                       *)
CityTexts == { << " " >>,
               << " ", "c", "a", "l", "i" >>,
               << "T", "U", "N", "J", "A" >> }

(* newCityName.trim().toUpperCase() *)
cleanCity(text) ==
    LET clean == toUpperCase(trim(text)) IN
    CASE clean = << "C", "A", "L", "I" >> -> "CALI"
      [] clean = << "T", "U", "N", "J", "A" >> -> "TUNJA"
      [] OTHER -> ""

CityVars == <<selectedSeals, isMoveModalOpen, safeMode, targetStatus, moveData,
              filteredSeals, isSearchPerformed, selectedIds, searchResult, moveForm,
              AsyncVars>>

(* handleSubmit of CityManagement with editingCity === null, and handleAddCity *)
P2_handleAddCity(text) ==
    /\ P2_Page /\ currentUser[1].role = ADMIN
    /\ Len(cities) < MaxCities
    /\ trim(text) # << >>
    /\ IF \E i \in DOMAIN cities : cities[i] = cleanCity(text)
       THEN /\ toast' = Toast("alert", "La ciudad ya existe", << >>)
            /\ UNCHANGED cities
       ELSE /\ cities' = Append(cities, cleanCity(text))
            /\ UNCHANGED toast
    /\ UNCHANGED <<store, seals, currentUser, users, clock, CityVars>>

(* handleSubmit of CityManagement with editingCity set, and handleUpdateCity *)
P2_handleUpdateCity(oldCity, text) ==
    /\ P2_Page /\ currentUser[1].role = ADMIN
    /\ \E i \in DOMAIN cities : cities[i] = oldCity
    /\ trim(text) # << >>
    /\ LET newCity == cleanCity(text) IN
       /\ cities' = [i \in DOMAIN cities |->
                        IF cities[i] = oldCity THEN newCity ELSE cities[i]]
       /\ users' = [i \in DOMAIN users |->
                       IF users[i].city = oldCity
                       THEN [users[i] EXCEPT !.city = newCity] ELSE users[i]]
       /\ seals' = [i \in DOMAIN seals |->
                       IF seals[i].city = oldCity
                       THEN [seals[i] EXCEPT !.city = newCity] ELSE seals[i]]
    /\ store' = saveSeals(store, seals')
    /\ UNCHANGED <<currentUser, toast, clock, CityVars>>

P2_handleDeleteCity(city) ==
    /\ P2_Page /\ currentUser[1].role = ADMIN
    /\ \E i \in DOMAIN cities : cities[i] = city
    /\ IF \E i \in DOMAIN users : users[i].city = city
       THEN /\ toast' = Toast("alert", "No se puede eliminar una ciudad que tiene usuarios asociados.", << >>)
            /\ UNCHANGED cities
       ELSE /\ cities' = SelectSeq(cities, LAMBDA c : c # city)
            /\ UNCHANGED toast
    /\ UNCHANGED <<store, seals, currentUser, users, clock, CityVars>>

P2CitiesNext ==
    \/ ToastTimeout
    \/ \E i \in DOMAIN users : P2_handleLogin(users[i])
    \/ P2_handleLogout
    \/ \E r \in RegisterInputs : P2_Register(r[1], r[2])
    \/ \E data \in ImportFiles : P2_handleExcelImport(data)
    \/ \E text \in CityTexts : P2_handleAddCity(text)
    \/ \E i \in DOMAIN cities, text \in CityTexts : P2_handleUpdateCity(cities[i], text)
    \/ \E i \in DOMAIN cities : P2_handleDeleteCity(cities[i])

SpecP2Cities == P2Init /\ [][P2CitiesNext]_vars

-----------------------------------------------------------------------------
(* src/unnamed/part_000: App, with the SealService of the same file (the    *)
(* same getAllSeals, saveSeal and updateSeal) and check-box selection.      *)
(* The move modal (z-110) lies over the detail modal (z-100).               *)

(* useState<Partial<Seal>>({ status: undefined, observations: '', assignedTo: '', ... }) *)
P0_InitialMoveForm ==
    [status |-> None,
     fields |-> [k \in FieldNames |-> IF k = "orderNumber" THEN Absent ELSE ""]]

(* setMoveForm({ status: undefined, observations: '' }) *)
P0_ResetMoveForm ==
    [status |-> None,
     fields |-> [k \in FieldNames |-> IF k = "observations" THEN "" ELSE Absent]]

P0Init ==
    /\ store = << >>
    /\ seals = getAllSeals(store)
    /\ currentUser = << >>
    /\ selectedSeals = << >>
    /\ searchResult = << >>
    /\ isMoveModalOpen = FALSE
    /\ moveForm = P0_InitialMoveForm
    /\ safeMode = FALSE
    /\ toast = << >>
    /\ clock = 0
    /\ NotUsed

P0_Login ==
    /\ currentUser = << >>
    /\ currentUser' = << MOCK_USERS[1] >>
    /\ UNCHANGED <<store, seals, selectedSeals, searchResult, isMoveModalOpen,
                   moveForm, safeMode, toast, clock, P2Vars>>

P0_Logout ==
    /\ LoggedIn /\ NoOverlay
    /\ currentUser' = << >>
    /\ UNCHANGED <<store, seals, selectedSeals, searchResult, isMoveModalOpen,
                   moveForm, safeMode, toast, clock, P2Vars>>

P0_ToggleSafeMode ==
    /\ LoggedIn /\ NoOverlay
    /\ safeMode' = ~safeMode
    /\ UNCHANGED <<store, seals, currentUser, selectedSeals, searchResult,
                   isMoveModalOpen, moveForm, toast, clock, P2Vars>>

(* "Registrar" of the new-seal modal: if (!idInput.value) return; saveSeal({...}) *)
P0_Register(idInput, typeInput) ==
    /\ LoggedIn /\ NoOverlay
    /\ Len(seals) < MaxSeals /\ clock < MaxClock
    /\ idInput # << >>
    /\ store' = saveSeal(store, NewSeal(toUpperCase(idInput), typeInput,
                                        currentUser[1], Now, NoFields))
    /\ seals' = getAllSeals(store')
    /\ toast' = Toast("success", "Alta exitosa", << >>)
    /\ clock' = Now
    /\ UNCHANGED <<currentUser, selectedSeals, searchResult, isMoveModalOpen,
                   moveForm, safeMode, P2Vars>>

P0_handleBulkUpload(data) ==
    /\ LoggedIn /\ NoOverlay
    /\ Len(seals) + Len(data) <= MaxSeals /\ clock < MaxClock
    /\ store' = saveAll(store, BulkSeals(data, currentUser, Now))
    /\ seals' = getAllSeals(store')
    /\ toast' = Toast("success", "Se cargaron precintos", << >>)
    /\ clock' = Now
    /\ UNCHANGED <<currentUser, selectedSeals, searchResult, isMoveModalOpen,
                   moveForm, safeMode, P2Vars>>

(* a row of the inventory table: onClick={() => setSearchResult(s)} *)
P0_RowClick(i) ==
    /\ LoggedIn /\ NoOverlay
    /\ seals[i].city = currentUser[1].city
    /\ searchResult' = << seals[i] >>
    /\ UNCHANGED <<store, seals, currentUser, selectedSeals, isMoveModalOpen,
                   moveForm, safeMode, toast, clock, P2Vars>>

(* "Cerrar" of the detail modal *)
P0_CloseDetail ==
    /\ LoggedIn /\ searchResult # << >> /\ ~isMoveModalOpen
    /\ searchResult' = << >>
    /\ UNCHANGED <<store, seals, currentUser, selectedSeals, isMoveModalOpen,
                   moveForm, safeMode, toast, clock, P2Vars>>

(* "Cambiar Estado" of the detail modal, shown for a seal of any status *)
P0_CambiarEstado ==
    /\ LoggedIn /\ searchResult # << >> /\ ~isMoveModalOpen
    /\ selectedSeals' = << searchResult[1] >>
    /\ isMoveModalOpen' = TRUE
    /\ UNCHANGED <<store, seals, currentUser, searchResult, moveForm, safeMode,
                   toast, clock, P2Vars>>

(* the check box of the table header *)
P0_SelectAll(checked) ==
    /\ LoggedIn /\ NoOverlay
    /\ selectedSeals' = IF checked THEN citySeals(seals, currentUser) ELSE << >>
    /\ selectedSeals' # selectedSeals
    /\ UNCHANGED <<store, seals, currentUser, searchResult, isMoveModalOpen,
                   moveForm, safeMode, toast, clock, P2Vars>>

(* the check box of a row, rendered when the row's status is not terminal *)
P0_ToggleRow(i) ==
    /\ LoggedIn /\ NoOverlay
    /\ seals[i].city = currentUser[1].city
    /\ ALLOWED_TRANSITIONS(seals[i].status) # << >>
    /\ LET other(sel) == sel.id # seals[i].id IN
       selectedSeals' = IF FindById(selectedSeals, seals[i].id) # << >>
                        THEN SelectSeq(selectedSeals, other)
                        ELSE Append(selectedSeals, seals[i])
    /\ UNCHANGED <<store, seals, currentUser, searchResult, isMoveModalOpen,
                   moveForm, safeMode, toast, clock, P2Vars>>

(* "Ejecutar Movimiento (n)", disabled when nothing is selected *)
P0_EjecutarMovimiento ==
    /\ LoggedIn /\ NoOverlay
    /\ Len(selectedSeals) # 0
    /\ moveForm' = P0_ResetMoveForm
    /\ isMoveModalOpen' = TRUE
    /\ UNCHANGED <<store, seals, currentUser, selectedSeals, searchResult,
                   safeMode, toast, clock, P2Vars>>

(* a status button of the move modal *)
P0_ChooseStatus(st) ==
    /\ LoggedIn /\ isMoveModalOpen
    /\ st \in Range(getCommonNextStatuses(selectedSeals))
    /\ moveForm.status # st
    /\ moveForm' = [moveForm EXCEPT !.status = st]
    /\ UNCHANGED <<store, seals, currentUser, selectedSeals, searchResult,
                   isMoveModalOpen, safeMode, toast, clock, P2Vars>>

P0_renderStatusFields(status) ==
    IF status = None THEN {}
    ELSE (IF status = ASIGNADO THEN {"assignedTo"} ELSE {})
         \cup (IF status = INSTALADO THEN {"vehiclePlate", "containerId"} ELSE {})
         \cup (IF status = SALIDA_FABRICA THEN {"destination"} ELSE {})
         \cup {"observations"}

P0_TypeField(k, v) ==
    /\ LoggedIn /\ isMoveModalOpen
    /\ k \in P0_renderStatusFields(moveForm.status)
    /\ moveForm.fields[k] # v
    /\ moveForm' = [moveForm EXCEPT !.fields[k] = v]
    /\ UNCHANGED <<store, seals, currentUser, selectedSeals, searchResult,
                   isMoveModalOpen, safeMode, toast, clock, P2Vars>>

(* "Cancelar" and the close button of the move modal *)
P0_Cancelar ==
    /\ LoggedIn /\ isMoveModalOpen
    /\ isMoveModalOpen' = FALSE
    /\ UNCHANGED <<store, seals, currentUser, selectedSeals, searchResult,
                   moveForm, safeMode, toast, clock, P2Vars>>

P0_handleConfirmMove ==
    /\ LoggedIn /\ isMoveModalOpen
    /\ moveForm.status # None
    /\ clock < MaxClock
    /\ store' = updateAll(store, [i \in DOMAIN selectedSeals |->
                                    MovedSeal(selectedSeals[i], moveForm, currentUser, Now)])
    /\ seals' = getAllSeals(store')
    /\ isMoveModalOpen' = FALSE
    /\ selectedSeals' = << >>
    /\ searchResult' = << >>
    /\ toast' = Toast("success", "Movimiento validado y guardado", << >>)
    /\ clock' = Now
    /\ UNCHANGED <<currentUser, moveForm, safeMode, P2Vars>>

P0Next ==
    \/ ToastTimeout
    \/ P0_Login
    \/ P0_Logout
    \/ P0_ToggleSafeMode
    \/ \E r \in RegisterInputs : P0_Register(r[1], r[2])
    \/ \E data \in ImportFiles : P0_handleBulkUpload(data)
    \/ \E i \in DOMAIN seals : P0_RowClick(i)
    \/ P0_CloseDetail
    \/ P0_CambiarEstado
    \/ \E checked \in BOOLEAN : P0_SelectAll(checked)
    \/ \E i \in DOMAIN seals : P0_ToggleRow(i)
    \/ P0_EjecutarMovimiento
    \/ \E st \in SealStatus : P0_ChooseStatus(st)
    \/ \E k \in TypedFields, v \in FieldValues : P0_TypeField(k, v)
    \/ P0_Cancelar
    \/ P0_handleConfirmMove

SpecP0 == P0Init /\ [][P0Next]_vars

-----------------------------------------------------------------------------
(* Properties of the lifecycle, stated on the collection `seals` *)

LegalPair(from, to) == to \in Range(ALLOWED_TRANSITIONS(from))

Terminal(st) == st \in {SALIDA_FABRICA, DESTRUIDO}

IsSuffix(old, new) ==
    /\ Len(old) <= Len(new)
    /\ \A k \in 1..Len(old) : old[k] = new[Len(new) - Len(old) + k]

(* the step keeps every seal at its place: nothing registered, nothing deleted *)
SameSeals ==
    /\ Len(seals') = Len(seals)
    /\ \A i \in DOMAIN seals : seals'[i].id = seals[i].id

Moved(i) ==
    \/ seals'[i].status # seals[i].status
    \/ seals'[i].history # seals[i].history

(* the step is a confirmed movement of part_001 *)
P1_ConfirmStep == isMoveModalOpen /\ moveForm.status # None /\ clock' # clock

(* C1: a movement whose (current status, target status) pair is not in the  *)
(* allowed-transition table leaves every seal's status and history as they  *)
(* were: whenever a seal is moved, the pair is in the table.                 *)
C1_IllegalPairRejected ==
    [][SameSeals =>
        \A i \in DOMAIN seals :
            Moved(i) => LegalPair(seals[i].status, seals'[i].status)]_vars

(* C2: a seal whose status is DESTRUIDO or SALIDA_FABRICA is never moved:   *)
(* in a step that deletes nothing, its status and its history stay as they  *)
(* were.                                                                     *)
C2_TerminalIsImmutable ==
    [][SameSeals =>
        \A i \in DOMAIN seals :
            Terminal(seals[i].status) => ~Moved(i)]_vars

(* C3: the status of every seal of the collection is the toStatus of the    *)
(* newest entry of its history.                                              *)
C3_StatusIsNewestEntry ==
    \A i \in DOMAIN seals :
        /\ seals[i].history # << >>
        /\ seals[i].status = seals[i].history[1].toStatus

(* a registered seal and another seal, moved together by one batch *)
C3_Witness ==
    \E i, j \in DOMAIN seals :
        /\ i # j
        /\ seals[i].creationDate > 0
        /\ Len(seals[i].history) >= 2 /\ Len(seals[j].history) >= 2
        /\ seals[i].lastMovement = seals[j].lastMovement
        /\ seals[i].status # ENTRADA_INVENTARIO

(* C4: a batch of two or more seals confirmed while a field required for    *)
(* the target is empty changes no seal of the batch (part_001).              *)
C4_BatchAllOrNothing ==
    [][(/\ P1_ConfirmStep
        /\ Len(selectedSeals) >= 2
        /\ moveForm.status = ASIGNADO
        /\ moveForm.fields["assignedTo"] \in {"", Absent})
       => seals' = seals]_vars

(* C5: a batch whose seals do not all have the same status is never moved:  *)
(* the seals moved by one step had the same status before it.               *)
C5_MixedBatchNeverMoved ==
    [][SameSeals =>
        \A i, j \in DOMAIN seals :
            (Moved(i) /\ Moved(j)) => seals[i].status = seals[j].status]_vars

(* C6: history is append-only: in a step that deletes nothing, the history  *)
(* of every seal before the step is a suffix of its history after it.       *)
C6_HistoryAppendOnly ==
    [][SameSeals =>
        \A i \in DOMAIN seals : IsSuffix(seals[i].history, seals'[i].history)]_vars

(* C7: every successful movement of a seal adds exactly one entry to the    *)
(* history the seal had, so that N movements leave N+1 entries, and the     *)
(* entries are ordered newest first.                                         *)
C7_OneEntryPerMovement ==
    [][P1_ConfirmStep =>
        \A i \in DOMAIN seals :
            (\E k \in DOMAIN selectedSeals : selectedSeals[k].id = seals[i].id)
            => /\ Len(seals'[i].history) = Len(seals[i].history) + 1
               /\ \A k \in 1..(Len(seals'[i].history) - 1) :
                     seals'[i].history[k].date >= seals'[i].history[k + 1].date]_vars

(* C8: registering a seal under an id that is already in the collection,    *)
(* whatever its type, fails with an error and leaves the collection as it  *)
(* was.                                                                      *)
C8_DuplicateIdRejected ==
    [][\A r \in RegisterInputs :
          (/\ FindById(seals, toUpperCase(r[1])) # << >>
           /\ \/ P0_Register(r[1], r[2])
              \/ P1_Register(r[1], r[2])
              \/ P2_Register(r[1], r[2]))
          => /\ seals' = seals
             /\ toast' # << >> /\ toast'[1].type \in {"error", "alert"}]_vars

(* C9: no two seals of the collection have the same id.                     *)
C9_UniqueIds ==
    \A i, j \in DOMAIN seals : i # j => seals[i].id # seals[j].id

(* C10: a movement confirmed while a field required for its target is empty *)
(* is rejected with an error and changes no seal (ASIGNADO: assignedTo).    *)
C10_RequiredFieldsChecked ==
    [][(/\ P1_ConfirmStep
        /\ moveForm.status = ASIGNADO
        /\ moveForm.fields["assignedTo"] \in {"", Absent})
       => /\ seals' = seals
          /\ toast' # << >> /\ toast'[1].type = "error"]_vars

(* C11: a movement to SALIDA_FABRICA confirmed while the destination is     *)
(* empty is rejected and changes no seal.                                    *)
C11_DestinationRequired ==
    [][(/\ P1_ConfirmStep
        /\ moveForm.status = SALIDA_FABRICA
        /\ moveForm.fields["destination"] \in {"", Absent})
       => seals' = seals]_vars

(* C12: a seal in ASIGNADO or NO_INSTALADO can be moved back to             *)
(* ENTRADA_INVENTARIO: whenever the targets are offered for such a seal,    *)
(* ENTRADA_INVENTARIO can be chosen.                                         *)
C12_ResetOffered ==
    (/\ LoggedIn /\ P2_ChooserShown
     /\ selectedSeals[1].status \in {ASIGNADO, NO_INSTALADO})
    => ENABLED P2_setTargetStatus(ENTRADA_INVENTARIO)

(* C13: handleMassiveMovement puts every requested id, trimmed and in upper *)
(* case, into exactly one of three lists: the seals of the user's site, the *)
(* ids no seal has, the ids of seals of another site; the list an id falls  *)
(* into is the one it falls into when requested alone.                      *)
C13_Class(id, input) ==
    LET ids == RequestedIds(input) IN
    << \E j \in DOMAIN validFoundSeals(ids, seals, currentUser) :
            validFoundSeals(ids, seals, currentUser)[j].id = id,
       \E j \in DOMAIN invalidIds(ids, seals) : invalidIds(ids, seals)[j] = id,
       \E j \in DOMAIN wrongCityIds(ids, seals, currentUser) :
            wrongCityIds(ids, seals, currentUser)[j] = id >>

C13_ThreeClasses ==
    currentUser # << >> =>
    \A input \in MovementInputs :
        \A id \in Range(RequestedIds(input)) :
            LET c == C13_Class(id, input)
                here  == \E i \in DOMAIN seals :
                            seals[i].id = id /\ seals[i].city = currentUser[1].city
                there == \E i \in DOMAIN seals :
                            seals[i].id = id /\ seals[i].city # currentUser[1].city
            IN /\ Cardinality({k \in 1..3 : c[k]}) = 1
               /\ c[1] => here
               /\ c[2] <=> ~(here \/ there)
               /\ c[3] => there
               /\ c = C13_Class(id, << id >>)
               /\ \E j \in DOMAIN input : id = toUpperCase(trim(input[j]))

(* the handler refused a request that names a seal of another site *)
C13_Witness ==
    /\ toast # << >>
    /\ toast[1].msg = "pertenecen a otra sede"
    /\ toast[1].ids = << <<"M">> >>

(* C14: a movement request in which at least one id names no seal of the    *)
(* user's site opens no move modal and changes no seal.                     *)
C14_Offending(input) ==
    \E id \in Range(RequestedIds(input)) :
        ~\E i \in DOMAIN seals :
            seals[i].id = id /\ seals[i].city = currentUser[1].city

C14_BadRequestRefused ==
    [][\A input \in MovementInputs :
          (/\ currentUser # << >>
           /\ C14_Offending(input)
           /\ \/ P1_handleMassiveMovement(input)
              \/ \E status \in SealStatus : P2_onInitiateMove(input, status))
          => (~isMoveModalOpen' /\ seals' = seals)]_vars

(* C15: the error raised for a refused movement request names every         *)
(* offending id of the request, the ids no seal has and the ids of seals of *)
(* another site alike.                                                      *)
C15_ErrorNamesEveryId ==
    [][\A input \in MovementInputs :
          (/\ currentUser # << >>
           /\ C14_Offending(input)
           /\ P1_handleMassiveMovement(input))
          => \A id \in Range(RequestedIds(input)) :
                (~\E i \in DOMAIN seals :
                     seals[i].id = id /\ seals[i].city = currentUser[1].city)
                => id \in Range(toast'[1].ids)]_vars

(* C16: the operational fields of a seal are cumulative: a field that holds *)
(* a non-empty value keeps it through a movement whose form supplies no     *)
(* non-empty value for it.                                                  *)
C16_FieldsCumulative ==
    [][(P1_ConfirmStep /\ SameSeals) =>
        \A i \in DOMAIN seals : \A f \in FieldNames :
            (/\ seals[i].fields[f] \notin {"", Absent}
             /\ moveForm.fields[f] \in {"", Absent})
            => seals'[i].fields[f] = seals[i].fields[f]]_vars

(* C17: a movement never changes the id, the type, the city or the creation *)
(* date of a seal: a seal whose status or history changes in a step keeps   *)
(* those four.                                                              *)
C17_MovementKeepsIdentity ==
    [][SameSeals =>
        \A i \in DOMAIN seals :
            Moved(i) => /\ seals'[i].id = seals[i].id
                        /\ seals'[i].type = seals[i].type
                        /\ seals'[i].city = seals[i].city
                        /\ seals'[i].creationDate = seals[i].creationDate]_vars

(* C18: no operation of a GESTOR changes a seal of another city: in a step  *)
(* taken while a GESTOR is logged in, every seal that changes belongs to    *)
(* the user's city.                                                         *)
C18_GestorOwnSite ==
    [][(/\ currentUser # << >>
        /\ currentUser[1].role = GESTOR
        /\ SameSeals)
       => \A i \in DOMAIN seals :
             seals'[i] # seals[i] => seals[i].city = currentUser[1].city]_vars

(* C19: a seal leaves the collection only in a step taken by an ADMIN with  *)
(* safe mode on; and safe mode does not outlive the session, so that right  *)
(* after a new login a delete request removes nothing.                      *)
C19_DeleteGate ==
    [][/\ Len(seals') < Len(seals)
            => (/\ currentUser # << >>
                /\ currentUser[1].role = ADMIN
                /\ safeMode)
       /\ (currentUser = << >> /\ currentUser' # << >>) => ~safeMode']_vars

(* C20: every seal a registration or an import adds has status              *)
(* ENTRADA_INVENTARIO, the creating user's city and name, creationDate =    *)
(* lastMovement and one history entry, from none to ENTRADA_INVENTARIO; and *)
(* in every state the history of every seal is non-empty and its oldest     *)
(* entry is the creation entry, dated with the seal's creationDate.         *)
C20_CreationEntry(s) ==
    /\ s.history # << >>
    /\ s.history[Len(s.history)].fromStatus = None
    /\ s.history[Len(s.history)].toStatus = ENTRADA_INVENTARIO
    /\ s.history[Len(s.history)].date = s.creationDate

C20_Created(s, cu) ==
    /\ s.status = ENTRADA_INVENTARIO
    /\ s.city = cu.city
    /\ s.entryUser = cu.fullName
    /\ s.creationDate = s.lastMovement
    /\ Len(s.history) = 1
    /\ s.history[1].user = cu.fullName
    /\ C20_CreationEntry(s)

C21_EntryFromPriorStatus ==
    [][SameSeals =>
        \A i \in DOMAIN seals :
            Moved(i) => /\ seals'[i].history # << >>
                        /\ seals'[i].history[1].fromStatus = seals[i].status
                        /\ seals'[i].history[1].toStatus = seals'[i].status]_vars

(* C22: after a movement, entryUser of each moved seal is the user who      *)
(* performed it and lastMovement is its time: they equal the user and the   *)
(* date of the newest history entry, which are the logged-in user and the   *)
(* time of the step.                                                        *)
C22_LastActorRecorded ==
    [][SameSeals =>
        \A i \in DOMAIN seals :
            Moved(i) => /\ seals'[i].history # << >>
                        /\ seals'[i].history[1].user = UserName(currentUser)
                        /\ seals'[i].history[1].date = clock'
                        /\ seals'[i].entryUser = seals'[i].history[1].user
                        /\ seals'[i].lastMovement = seals'[i].history[1].date]_vars

(* C23: ALLOWED_TRANSITIONS maps each of the seven statuses to the set of   *)
(* next statuses of the specification's table, and getCommonNextStatuses    *)
(* returns that set for a batch whose seals share one status.               *)
C23_Table(st) ==
    CASE st = ENTRADA_INVENTARIO -> {ASIGNADO, DESTRUIDO}
      [] st = ASIGNADO           -> {ENTREGADO, ENTRADA_INVENTARIO, DESTRUIDO}
      [] st = ENTREGADO          -> {INSTALADO, NO_INSTALADO, DESTRUIDO}
      [] st = INSTALADO          -> {SALIDA_FABRICA, DESTRUIDO}
      [] st = NO_INSTALADO       -> {DESTRUIDO, ENTRADA_INVENTARIO}
      [] st = SALIDA_FABRICA     -> {}
      [] st = DESTRUIDO          -> {}

C23_TableAsSpecified ==
    /\ Cardinality(SealStatus) = 7
    /\ \A st \in SealStatus :
          /\ Range(ALLOWED_TRANSITIONS(st)) = C23_Table(st)
          /\ Len(ALLOWED_TRANSITIONS(st)) = Cardinality(C23_Table(st))
    /\ (/\ selectedSeals # << >>
        /\ \A i \in DOMAIN selectedSeals : selectedSeals[i].status = selectedSeals[1].status)
       => Range(getCommonNextStatuses(selectedSeals)) = C23_Table(selectedSeals[1].status)

(* the move modal is open for a seal that has left the inventory *)
C23_Witness ==
    /\ isMoveModalOpen
    /\ selectedSeals # << >>
    /\ selectedSeals[1].status = ASIGNADO
    /\ Range(getCommonNextStatuses(selectedSeals)) = {ENTREGADO, ENTRADA_INVENTARIO, DESTRUIDO}

(* C24: in the transition graph SALIDA_FABRICA and DESTRUIDO are the only   *)
(* statuses without an outgoing edge, no status has an edge to itself, and  *)
(* without the two edges back to ENTRADA_INVENTARIO the graph has no cycle: *)
(* a path that takes neither of them has at most 4 edges. The move modal    *)
(* accordingly offers no target for a seal in one of the two sinks, and     *)
(* some target for every other seal.                                        *)
C24_BackEdge(from, to) ==
    from \in {ASIGNADO, NO_INSTALADO} /\ to = ENTRADA_INVENTARIO

C24_Forward(st) ==
    {to \in Range(ALLOWED_TRANSITIONS(st)) : ~C24_BackEdge(st, to)}

C24_Max(S) == IF S = {} THEN 0 ELSE CHOOSE m \in S : \A n \in S : n <= m

(* the number of edges of the longest forward path from st, cut at `fuel` *)
RECURSIVE C24_Longest(_, _)
C24_Longest(st, fuel) ==
    IF fuel = 0 \/ C24_Forward(st) = {} THEN 0
    ELSE 1 + C24_Max({C24_Longest(to, fuel - 1) : to \in C24_Forward(st)})

(* the statuses reached from st by one to `fuel` edges of the whole table *)
RECURSIVE C24_Reach(_, _)
C24_Reach(st, fuel) ==
    IF fuel = 0 THEN {}
    ELSE Range(ALLOWED_TRANSITIONS(st))
         \cup UNION {C24_Reach(to, fuel - 1) : to \in Range(ALLOWED_TRANSITIONS(st))}

C24_Graph ==
    /\ {st \in SealStatus : ALLOWED_TRANSITIONS(st) = << >>} = {SALIDA_FABRICA, DESTRUIDO}
    /\ \A st \in SealStatus : st \notin Range(ALLOWED_TRANSITIONS(st))
    /\ \A st \in SealStatus : C24_Longest(st, Cardinality(SealStatus) + 1) <= 4
    /\ \E st \in SealStatus : C24_Longest(st, Cardinality(SealStatus) + 1) = 4
    /\ {st \in SealStatus : st \in C24_Reach(st, Cardinality(SealStatus))}
          = {ENTRADA_INVENTARIO, ASIGNADO, ENTREGADO, NO_INSTALADO}

C25_HistoryIsChain ==
    \A i \in DOMAIN seals :
        \A k \in 1..(Len(seals[i].history) - 1) :
            seals[i].history[k].fromStatus = seals[i].history[k + 1].toStatus

(* a seal has been moved twice *)
C25_Witness ==
    \E i \in DOMAIN seals :
        /\ Len(seals[i].history) = 3
        /\ seals[i].history[1].fromStatus = seals[i].history[2].toStatus
        /\ seals[i].history[2].fromStatus = ENTRADA_INVENTARIO

(* C26: a confirmed movement changes only the seals of the selected batch:  *)
(* a seal of the collection that is not one of selectedSeals (another id,   *)
(* type or city) keeps its status, its history and its fields.              *)
C26_InBatch(s) ==
    \E k \in DOMAIN selectedSeals :
        /\ selectedSeals[k].id = s.id
        /\ selectedSeals[k].type = s.type
        /\ selectedSeals[k].city = s.city

C26_OnlyBatchChanges ==
    [][(SameSeals /\ \E j \in DOMAIN seals : Moved(j)) =>
        \A i \in DOMAIN seals :
            ~C26_InBatch(seals[i]) => /\ seals'[i].status = seals[i].status
                                      /\ seals'[i].history = seals[i].history
                                      /\ seals'[i].fields = seals[i].fields]_vars

(* C27: whenever MovementsView of part_002 shows its transition panel for a *)
(* query (foundSeals non-empty, allFound, commonStatus not MIXED), every id *)
(* of the query is the id of a seal in foundSeals.                          *)
C27_PanelShown(input) ==
    /\ Len(foundSeals(input, seals, currentUser)) > 0
    /\ allFound(input, seals, currentUser)
    /\ commonStatus(foundSeals(input, seals, currentUser)) # MIXED

C27_PanelOnlyWhenAllMatch ==
    currentUser # << >> =>
    \A input \in MovementInputs :
        C27_PanelShown(input) =>
            \A id \in Range(RequestedIds(input)) :
                \E j \in DOMAIN foundSeals(input, seals, currentUser) :
                    foundSeals(input, seals, currentUser)[j].id = id

(* C28: after every operation the collection persisted under 'selloData'    *)
(* is the collection in memory, the empty one included: loading the page    *)
(* again shows the same seals.                                              *)
C28_PersistedIsInMemory ==
    /\ store # << >>
    /\ getAllSeals(store) = seals

(* C29: after any sequence of city, registration and import operations, the *)
(* city of every seal, of every user and of the logged-in user is in the    *)
(* cities list, and the list holds no name twice.                           *)
C29_CitiesConsistent ==
    /\ \A i \in DOMAIN seals : seals[i].city \in Range(cities)
    /\ \A i \in DOMAIN users : users[i].city \in Range(cities)
    /\ currentUser # << >> => currentUser[1].city \in Range(cities)
    /\ \A i, j \in DOMAIN cities : cities[i] = cities[j] => i = j

(* C30: no write of the store is lost when handlers overlap: once no        *)
(* handler is suspended, the store holds every seal that saveSeal wrote,    *)
(* and every seal that updateSeal wrote has, once, the history entry of     *)
(* its movement.                                                            *)
C30_NoLostWrite ==
    inFlight = {} =>
    \A w \in written :
        \E i \in DOMAIN getAllSeals(store) :
            LET s == getAllSeals(store)[i] IN
            /\ s.id = w.seal.id
            /\ Cardinality({k \in DOMAIN s.history : s.history[k] = w.seal.history[1]}) = 1

====
